---- MODULE Spec2Model ----
(***************************************************************************)
(* Model of plugins/linux-v4l2/v4l2-input.c: the v4l2 capture source.      *)
(*                                                                         *)
(* Two execution contexts share one struct v4l2_data: the control context  *)
(* (v4l2_create / v4l2_update / v4l2_destroy, which run v4l2_terminate and *)
(* v4l2_init) and the capture thread (v4l2_thread).  The control context   *)
(* is modelled statement by statement with the program counter pc, the     *)
(* capture thread with tpc.  The kernel side (which regions are really     *)
(* mapped, how many descriptors are really open, whether a thread really   *)
(* runs, the state of the event object) is kept next to the fields of the  *)
(* struct so that stale fields can be told apart from live resources.      *)
(***************************************************************************)
EXTENDS Integers, Sequences, FiniteSets, TLC

(* ------------------------------ bounds -------------------------------- *)
\* largest buffer count the device grants to VIDIOC_REQBUFS
MaxGrant == 4
\* frames the device produces during one run of the capture thread
MaxFrames == 2

\* bound: directory entries of /sys/class/video4linux in one scan
MaxEntries == 2

\* bound: libv4l2 handles left open by enumeration before scanning stops
MaxLeaked == 2

(* ------------------------- program constants -------------------------- *)
\* "less than 2 buffers" is a hard failure (v4l2_create_mmap)
MinBuffers == 2
\* value of data->dev when no device is open
NoDev == 0 - 1
\* descriptor returned by a successful v4l2_open
DevFd == 3

\* values of the settings the configuration store can hand to v4l2_update
\* (the defaults, and the defaults with one of the four fields changed)
DefaultSettings == [device_id |-> "video0", pixelformat |-> 1,
                    resolution |-> 1, framerate |-> 1]
Settings == {DefaultSettings,
             [DefaultSettings EXCEPT !.device_id = ""],
             [DefaultSettings EXCEPT !.device_id = "video1"],
             [DefaultSettings EXCEPT !.pixelformat = 2],
             [DefaultSettings EXCEPT !.resolution = 2],
             [DefaultSettings EXCEPT !.framerate = 2]}
\* result of the auto selection in v4l2_device_list: the first capture
\* device found, or the id left blank when none is found
AutoIds == {"", "video0"}

\* states of one struct v4l2_buffer_data's start pointer
NULLPTR == "NULL"
MAPPED == "MAPPED"
MAP_FAILED == "MAP_FAILED"

VARIABLES
    \* control context
    pc,            \* position of the control context
    ret,           \* where v4l2_terminate returns to
    \* struct v4l2_data
    thread,        \* data->thread (0 or a non-zero handle)
    set_device,    \* data->set_device ("NULL" before the first update)
    set_pixfmt, set_res, set_fps,
    dev,           \* data->dev
    frames,        \* data->frames
    buf_count,     \* data->buf_count
    buf,           \* data->buf: sequence of start pointers
    \* what the struct refers to
    event,         \* the os_event_t: "uninit", "init", "signalled", "destroyed"
    thr,           \* the pthread: "none", "running", "exited", "joined"
    mapped,        \* buffer indices currently mapped into the process
    nopen,         \* open descriptors of the session
    queued,        \* buffer indices queued to the device
    held,          \* buffer dequeued by the capture thread, or -1
    \* capture thread
    tpc,           \* position of the capture thread
    \* observation of the run (history)
    mmap_rc,       \* return value and inputs of the last v4l2_create_mmap
    fail_step,     \* step at which the last v4l2_init failed, or "none"
    stop_live,     \* was a session live when v4l2_terminate was entered
    stop_log,      \* operations performed by the current v4l2_terminate
    upd_log,       \* phases of the current v4l2_update
    upd_in,        \* effective configuration of the current v4l2_update
    sess_cfg,      \* configuration the running session was started with
    ub,            \* undefined operations of the current v4l2_terminate
    streamoffs,    \* VIDIOC_STREAMOFF requests of the current thread run
    delivered,     \* frames delivered by the current thread run
    start_failed,  \* did v4l2_start_capture fail in the current thread run
    sig_waits,     \* select() calls of this run begun after the stop signal
    sig_delivs,    \* deliveries of this run begun after the stop signal
    fmt,           \* data->width/height/pixfmt/linesize as negotiated
    exit_cause,    \* why the current thread run left its loop, or "none"
    fds,           \* the thread's fd_set fds holds data->dev
    shown,         \* the held buffer's frame has been delivered
    bad_unmaps,    \* slots never mapped that the current Stop passed to munmap
    \* property callbacks (enumeration) and pure helpers
    enum_pc,       \* position of the enumeration callback
    enum_fds,      \* descriptors opened for enumeration and not yet closed
    enum_dir,      \* directory entries v4l2_device_list has still to visit
    enum_lib,      \* libv4l2 handles enumeration opened and has not released
    fn_in,         \* arguments of the helper function under test
    fn_out         \* its result

data_vars == <<thread, set_device, set_pixfmt, set_res, set_fps,
               dev, frames, buf_count, buf>>
set_vars == <<set_device, set_pixfmt, set_res, set_fps>>
env_vars == <<event, thr, mapped, nopen, queued, held>>
run_vars == <<streamoffs, delivered, start_failed, sig_waits, sig_delivs>>
hist_vars == <<mmap_rc, fail_step, stop_live, stop_log, upd_log, upd_in,
               sess_cfg, ub>>
obs_vars == <<exit_cause, fds, shown, bad_unmaps>>
aux_vars == <<enum_pc, enum_fds, enum_dir, enum_lib, fn_in, fn_out>>
sess_vars == <<pc, ret, data_vars, env_vars, tpc, hist_vars, run_vars,
               fmt, obs_vars>>
vars == <<sess_vars, aux_vars>>

StoredCfg == [device_id |-> set_device, pixelformat |-> set_pixfmt,
              resolution |-> set_res, framerate |-> set_fps]

\* a session is live while it owns a thread, a mapping or a descriptor
Live == thr \in {"running", "exited"} \/ mapped # {} \/ nopen > 0

\* the format VIDIOC_S_FMT reads back: the requested one, or the one the
\* device substitutes for it
Negotiated(p, r) == {[pixfmt |-> p, res |-> r], [pixfmt |-> 1, res |-> 1]}

\* enum_pc while no enumeration callback is executing
EnumIdle == [fn |-> "none", at |-> "idle"]

\* the auxiliary variables while no callback or helper is under test
AuxIdle ==
    /\ enum_pc = EnumIdle /\ enum_fds = 0 /\ enum_dir = <<>> /\ enum_lib = 0
    /\ fn_in = [fn |-> "none"] /\ fn_out = [step |-> 0]

\* value of mmap_rc while v4l2_create_mmap has not been called
NoMmapCall == [rc |-> 0, granted |-> 0 - 1, failed_at |-> 0 - 1]

(* the session after bzalloc() and data->dev = -1 in v4l2_create *)
SessInit ==
    /\ pc = "create" /\ ret = "idle"
    /\ thread = 0 /\ set_device = "NULL"
    /\ set_pixfmt = 0 /\ set_res = 0 /\ set_fps = 0
    /\ dev = NoDev /\ frames = 0 /\ buf_count = 0 /\ buf = <<>>
    /\ event = "uninit" /\ thr = "none" /\ mapped = {} /\ nopen = 0
    /\ queued = {} /\ held = 0 - 1
    /\ tpc = "none"
    /\ mmap_rc = NoMmapCall
    /\ fail_step = "none"
    /\ stop_live = FALSE /\ stop_log = <<>> /\ upd_log = <<>>
    /\ upd_in = StoredCfg /\ sess_cfg = StoredCfg
    /\ ub = {}
    /\ streamoffs = 0 /\ delivered = 0 /\ start_failed = FALSE
    /\ sig_waits = 0 /\ sig_delivs = 0
    /\ fmt = [pixfmt |-> 0, res |-> 0]
    /\ exit_cause = "none" /\ fds = FALSE /\ shown = FALSE
    /\ bad_unmaps = {}

(* state after bzalloc() and data->dev = -1 in v4l2_create *)
Init ==
    /\ SessInit
    /\ AuxIdle

(* --------------------------- v4l2_terminate --------------------------- *)
\* call of v4l2_terminate(data) returning to position r
CallTerminate(r) ==
    /\ pc' = "term"
    /\ ret' = r
    /\ stop_live' = Live
    /\ stop_log' = <<>>

\* an operation on an object that no longer exists: the build either gets
\* away with it or the process dies
Undefined(what, next) ==
    /\ ub' = ub \cup {what}
    /\ pc' \in {next, "crashed"}

\* (mutant) a join that does not wait for the thread
JoinReturns_nowait == TRUE

\* pthread_join returns once the joined thread has left v4l2_thread
JoinReturns == thr = "exited"

\* if (data->thread) os_event_signal(data->event);
v4l2_terminate_signal ==
    /\ pc = "term"
    /\ IF thread # 0
       THEN /\ stop_log' = Append(stop_log, "signal")
            /\ IF event \in {"init", "signalled"}
               THEN event' = "signalled" /\ pc' = "t_join" /\ ub' = ub
               ELSE event' = event /\ Undefined("signal", "t_join")
       ELSE /\ pc' = "t_mmap"
            /\ UNCHANGED <<stop_log, event, ub>>
    /\ UNCHANGED <<ret, data_vars, thr, mapped, nopen, queued, held, tpc,
                   mmap_rc, fail_step, stop_live, upd_log, upd_in, sess_cfg,
                   run_vars>>
    /\ UNCHANGED <<bad_unmaps, exit_cause, fmt, fds, shown, aux_vars>>

\* pthread_join(data->thread, NULL);
v4l2_terminate_join ==
    /\ pc = "t_join"
    /\ IF thr \in {"running", "exited"}
       THEN /\ JoinReturns
            /\ thr' = "joined" /\ pc' = "t_destroy" /\ ub' = ub
       ELSE /\ thr' = thr /\ Undefined("join", "t_destroy")
    /\ stop_log' = Append(stop_log, "join")
    /\ UNCHANGED <<ret, data_vars, event, mapped, nopen, queued, held, tpc,
                   mmap_rc, fail_step, stop_live, upd_log, upd_in, sess_cfg,
                   run_vars>>
    /\ exit_cause' = "none"
    /\ UNCHANGED <<bad_unmaps, fmt, fds, shown, aux_vars>>

\* os_event_destroy(data->event);
v4l2_terminate_destroy ==
    /\ pc = "t_destroy"
    /\ IF event \in {"init", "signalled"}
       THEN event' = "destroyed" /\ pc' = "t_mmap" /\ ub' = ub
       ELSE event' = event /\ Undefined("destroy", "t_mmap")
    /\ stop_log' = Append(stop_log, "destroy")
    /\ UNCHANGED <<ret, data_vars, thr, mapped, nopen, queued, held, tpc,
                   mmap_rc, fail_step, stop_live, upd_log, upd_in, sess_cfg,
                   run_vars>>
    /\ UNCHANGED <<bad_unmaps, exit_cause, fmt, fds, shown, aux_vars>>

\* (mutant) the MAP_FAILED test inverted
Unmapped_inverted(b, n) == {i \in 0..(n - 1) : b[i + 1] = MAP_FAILED}

\* indices for which v4l2_destroy_mmap calls v4l2_munmap
Unmapped(b, n) == {i \in 0..(n - 1) : b[i + 1] # MAP_FAILED}

\* if (data->buf_count) v4l2_destroy_mmap(data);
v4l2_destroy_mmap ==
    /\ pc = "t_mmap"
    /\ IF buf_count # 0
       THEN /\ mapped' = mapped \ Unmapped(buf, buf_count)
            /\ buf_count' = 0
            /\ buf' = <<>>
            /\ stop_log' = Append(stop_log, "unmap")
       ELSE UNCHANGED <<mapped, buf_count, buf, stop_log>>
    /\ pc' = "t_close"
    /\ UNCHANGED <<ret, thread, set_vars, dev, frames, event, thr, nopen,
                   queued, held, tpc, mmap_rc, fail_step, stop_live, upd_log,
                   upd_in, sess_cfg, ub, run_vars>>
    /\ bad_unmaps' = IF buf_count # 0
                      THEN Unmapped(buf, buf_count) \ mapped
                      ELSE bad_unmaps
    /\ UNCHANGED <<exit_cause, fmt, fds, shown, aux_vars>>

\* if (data->dev != -1) { v4l2_close(data->dev); data->dev = -1; }
v4l2_terminate_close ==
    /\ pc = "t_close"
    /\ IF dev # NoDev
       THEN /\ nopen' = nopen - 1
            /\ dev' = NoDev
            /\ stop_log' = Append(stop_log, "close")
       ELSE UNCHANGED <<nopen, dev, stop_log>>
    /\ pc' = "t_ret"
    /\ upd_log' = CASE ret = "i_open" -> Append(upd_log, "stop")
                   [] ret = "u_ret" -> Append(upd_log, "start")
                   [] OTHER -> upd_log
    /\ UNCHANGED <<ret, thread, set_vars, frames, buf_count, buf, event, thr,
                   mapped, queued, held, tpc, mmap_rc, fail_step, stop_live,
                   upd_in, sess_cfg, ub, run_vars>>
    /\ UNCHANGED <<bad_unmaps, exit_cause, fmt, fds, shown, aux_vars>>

\* v4l2_terminate returns to its caller
v4l2_terminate_return ==
    /\ pc = "t_ret"
    /\ pc' = ret
    /\ IF ret = "freed"
       THEN UNCHANGED <<stop_live, stop_log, ub>>
       ELSE stop_live' = FALSE /\ stop_log' = <<>> /\ ub' = {}
    /\ UNCHANGED <<ret, data_vars, env_vars, tpc, mmap_rc, fail_step, upd_log,
                   upd_in, sess_cfg, run_vars>>
    /\ bad_unmaps' = IF ret = "freed" THEN bad_unmaps ELSE {}
    /\ UNCHANGED <<exit_cause, fmt, fds, shown, aux_vars>>

(* ----------------------------- v4l2_init ------------------------------ *)
\* (mutant) a fail path that returns without v4l2_terminate
InitFail_noterminate(step) ==
    /\ fail_step' = step
    /\ pc' = "u_ret"
    /\ UNCHANGED <<ret, stop_live, stop_log>>

\* fail: blog(LOG_ERROR, "Initialization failed"); v4l2_terminate(data);
InitFail(step) ==
    /\ fail_step' = step
    /\ CallTerminate("u_ret")

\* data->dev = v4l2_open(data->set_device, O_RDWR | O_NONBLOCK);
v4l2_init_open ==
    /\ pc = "i_open"
    /\ \E ok \in BOOLEAN :
         IF ok /\ set_device # ""
         THEN /\ dev' = DevFd
              /\ nopen' = nopen + 1
              /\ pc' = "i_fmt"
              /\ UNCHANGED <<ret, fail_step, stop_live, stop_log>>
         ELSE /\ dev' = NoDev
              /\ nopen' = nopen
              /\ InitFail("open")
    /\ UNCHANGED <<thread, set_vars, frames, buf_count, buf, event, thr,
                   mapped, queued, held, tpc, mmap_rc, upd_log, upd_in,
                   sess_cfg, ub, run_vars>>
    /\ UNCHANGED <<bad_unmaps, exit_cause, fmt, fds, shown, aux_vars>>

\* v4l2_ioctl(data->dev, VIDIOC_S_FMT, &fmt); data->width = ...
v4l2_init_fmt ==
    /\ pc = "i_fmt"
    /\ \/ /\ fmt' \in Negotiated(set_pixfmt, set_res)
          /\ pc' = "i_parm"
          /\ UNCHANGED <<ret, fail_step, stop_live, stop_log>>
       \/ /\ fmt' = fmt
          /\ InitFail("fmt")
    /\ UNCHANGED <<obs_vars, aux_vars>>
    /\ UNCHANGED <<data_vars, env_vars, tpc, mmap_rc, upd_log, upd_in,
                   sess_cfg, ub, run_vars>>

\* v4l2_ioctl(data->dev, VIDIOC_S_PARM, &par)
v4l2_init_parm ==
    /\ pc = "i_parm"
    /\ \E ok \in BOOLEAN :
         IF ok
         THEN pc' = "i_mmap" /\ UNCHANGED <<ret, fail_step, stop_live, stop_log>>
         ELSE InitFail("parm")
    /\ UNCHANGED <<data_vars, env_vars, tpc, mmap_rc, upd_log, upd_in,
                   sess_cfg, ub, run_vars>>
    /\ UNCHANGED <<bad_unmaps, exit_cause, fmt, fds, shown, aux_vars>>

\* (mutant) a single buffer accepted
TooFewBuffers_one(count) == count < MinBuffers - 1

\* if (req.count < 2) return -1;
TooFewBuffers(count) == count < MinBuffers

\* start pointers after the mapping loop stopped at index k of n:
\* slots below k are mapped, slot k holds MAP_FAILED when the mmap itself
\* failed, the other slots keep the NULL written by bzalloc
PartialBuf(n, k, kind) ==
    [i \in 1..n |-> IF i - 1 < k THEN MAPPED
                    ELSE IF i - 1 = k /\ kind = "mmap" THEN MAP_FAILED
                    ELSE NULLPTR]

\* buf_count as v4l2_create_mmap leaves it once the device granted n buffers
CountAfterGrant(n) == n

\* v4l2_create_mmap(data): request, query and map the buffers
v4l2_create_mmap ==
    /\ pc = "i_mmap"
    /\ \E reqok \in BOOLEAN, n \in 0..MaxGrant :
         IF ~reqok \/ TooFewBuffers(n)
         THEN /\ UNCHANGED <<buf_count, buf, mapped>>
              /\ mmap_rc' = [rc |-> 0 - 1,
                             granted |-> IF reqok THEN n ELSE 0 - 1,
                             failed_at |-> 0 - 1]
         ELSE \E k \in 0..n, kind \in {"query", "mmap"} :
              /\ buf_count' = CountAfterGrant(n)
              /\ buf' = PartialBuf(n, k, kind)
              /\ mapped' = mapped \cup {i \in 0..(n - 1) : i < k}
              /\ mmap_rc' = [rc |-> IF k < n THEN 0 - 1 ELSE 0,
                             granted |-> n,
                             failed_at |-> IF k < n THEN k ELSE 0 - 1]
    /\ pc' = "i_mmap_ret"
    /\ UNCHANGED <<ret, thread, set_vars, dev, frames, event, thr, nopen,
                   queued, held, tpc, fail_step, stop_live, stop_log, upd_log,
                   upd_in, sess_cfg, ub, run_vars>>
    /\ UNCHANGED <<bad_unmaps, exit_cause, fmt, fds, shown, aux_vars>>

\* if (v4l2_create_mmap(data) < 0) goto fail;
v4l2_init_mmap ==
    /\ pc = "i_mmap_ret"
    /\ IF mmap_rc.rc < 0
       THEN InitFail("mmap")
       ELSE pc' = "i_event" /\ UNCHANGED <<ret, fail_step, stop_live, stop_log>>
    /\ UNCHANGED <<data_vars, env_vars, tpc, mmap_rc, upd_log, upd_in,
                   sess_cfg, ub, run_vars>>
    /\ UNCHANGED <<bad_unmaps, exit_cause, fmt, fds, shown, aux_vars>>

\* if (os_event_init(&data->event, OS_EVENT_TYPE_MANUAL) != 0) goto fail;
v4l2_init_event ==
    /\ pc = "i_event"
    /\ \E ok \in BOOLEAN :
         IF ok
         THEN /\ event' = "init"
              /\ pc' = "i_thread"
              /\ UNCHANGED <<ret, fail_step, stop_live, stop_log>>
         ELSE /\ event' = event
              /\ InitFail("event")
    /\ UNCHANGED <<data_vars, thr, mapped, nopen, queued, held, tpc, mmap_rc,
                   upd_log, upd_in, sess_cfg, ub, run_vars>>
    /\ UNCHANGED <<bad_unmaps, exit_cause, fmt, fds, shown, aux_vars>>

\* if (pthread_create(&data->thread, NULL, v4l2_thread, data) != 0) goto fail;
\* on failure the contents of data->thread are undefined
v4l2_init_thread ==
    /\ pc = "i_thread"
    /\ \/ /\ thread' = 1
          /\ thr' = "running"
          /\ tpc' = "start"
          /\ sess_cfg' = StoredCfg
          /\ streamoffs' = 0 /\ delivered' = 0 /\ start_failed' = FALSE
          /\ sig_waits' = 0 /\ sig_delivs' = 0
          /\ exit_cause' = "none" /\ fds' = FALSE /\ shown' = FALSE
          /\ queued' = {} /\ held' = 0 - 1
          /\ pc' = "u_ret"
          /\ upd_log' = Append(upd_log, "start")
          /\ UNCHANGED <<ret, fail_step, stop_live, stop_log>>
       \/ /\ thread' \in {thread, 1}
          /\ InitFail("thread")
          /\ UNCHANGED <<thr, tpc, sess_cfg, run_vars, queued, held, upd_log,
                         exit_cause, fds, shown>>
    /\ UNCHANGED <<set_vars, dev, frames, buf_count, buf, event, mapped,
                   nopen, mmap_rc, upd_in, ub>>
    /\ UNCHANGED <<fmt, bad_unmaps, aux_vars>>

(* ------------------- v4l2_create / update / destroy ------------------- *)
\* new_device = obs_data_getstring(settings, "device_id"); a blank id is
\* replaced by the one v4l2_device_list selects
EffectiveSettings(s, auto) ==
    [s EXCEPT !.device_id = IF s.device_id = "" THEN auto ELSE s.device_id]

\* (mutant) an update that tries again when no device is open
NeedRestart_retry(s) ==
    \/ set_device = "NULL"
    \/ set_device # s.device_id
    \/ set_pixfmt # s.pixelformat
    \/ set_res # s.resolution
    \/ set_fps # s.framerate
    \/ dev = NoDev

\* (mutant) restart on every update
NeedRestart_always(s) == TRUE

\* (mutant) the frame rate stored without a restart
NeedRestart_nofps(s) ==
    \/ set_device = "NULL"
    \/ set_device # s.device_id
    \/ set_pixfmt # s.pixelformat
    \/ set_res # s.resolution

\* the restart flag of v4l2_update
NeedRestart(s) ==
    \/ set_device = "NULL"
    \/ set_device # s.device_id
    \/ set_pixfmt # s.pixelformat
    \/ set_res # s.resolution
    \/ set_fps # s.framerate

\* v4l2_create: the struct is allocated (Init), then v4l2_update is called
v4l2_create ==
    /\ pc = "create"
    /\ \E s \in Settings, auto \in AutoIds :
         upd_in' = EffectiveSettings(s, auto)
    /\ pc' = "upd"
    /\ UNCHANGED <<ret, data_vars, env_vars, tpc, mmap_rc, fail_step,
                   stop_live, stop_log, upd_log, sess_cfg, ub, run_vars>>
    /\ UNCHANGED <<bad_unmaps, exit_cause, fmt, fds, shown, aux_vars>>

\* v4l2_update is entered: the settings are read
v4l2_update_read ==
    /\ pc = "idle"
    /\ \E s \in Settings, auto \in AutoIds :
         upd_in' = EffectiveSettings(s, auto)
    /\ pc' = "upd"
    /\ UNCHANGED <<ret, data_vars, env_vars, tpc, mmap_rc, fail_step,
                   stop_live, stop_log, upd_log, sess_cfg, ub, run_vars>>
    /\ UNCHANGED <<bad_unmaps, exit_cause, fmt, fds, shown, aux_vars>>

\* (mutant) v4l2_init called without v4l2_terminate
RestartEntry_noterminate == "i_open"

\* if (restart) { v4l2_terminate(data); v4l2_init(data); }: the position
\* the control context moves to when restart is set
RestartEntry == "term"

\* v4l2_update: compare and store the four fields, restart when one differs
v4l2_update ==
    /\ pc = "upd"
    /\ set_device' = upd_in.device_id
    /\ set_pixfmt' = upd_in.pixelformat
    /\ set_res' = upd_in.resolution
    /\ set_fps' = upd_in.framerate
    /\ IF NeedRestart(upd_in)
       THEN /\ pc' = RestartEntry
            /\ ret' = "i_open"
            /\ stop_live' = Live
            /\ stop_log' = <<>>
            /\ upd_log' = <<"store">>
       ELSE /\ pc' = "u_ret"
            /\ UNCHANGED <<ret, stop_live, stop_log, upd_log>>
    /\ UNCHANGED <<thread, dev, frames, buf_count, buf, env_vars, tpc,
                   mmap_rc, fail_step, upd_in, sess_cfg, ub, run_vars>>
    /\ UNCHANGED <<bad_unmaps, exit_cause, fmt, fds, shown, aux_vars>>

\* v4l2_update returns to the host
v4l2_update_return ==
    /\ pc = "u_ret"
    /\ pc' = "idle"
    /\ upd_log' = <<>>
    /\ fail_step' = "none"
    /\ mmap_rc' = NoMmapCall
    /\ UNCHANGED <<ret, data_vars, env_vars, tpc, stop_live, stop_log,
                   upd_in, sess_cfg, ub, run_vars>>
    /\ UNCHANGED <<bad_unmaps, exit_cause, fmt, fds, shown, aux_vars>>

\* v4l2_destroy: v4l2_terminate, then the struct is freed
v4l2_destroy ==
    /\ pc = "idle"
    /\ CallTerminate("freed")
    /\ UNCHANGED <<data_vars, env_vars, tpc, mmap_rc, fail_step, upd_log,
                   upd_in, sess_cfg, ub, run_vars>>
    /\ UNCHANGED <<bad_unmaps, exit_cause, fmt, fds, shown, aux_vars>>

(* ---------------------------- v4l2_thread ----------------------------- *)
ThreadAt(p) == tpc = p /\ pc # "crashed"

\* (mutant) the capture loop entered although the start failed
StartFailTarget_loop == "loop"

\* if (v4l2_start_capture(data) < 0) goto exit;
StartFailTarget == "exit"

v4l2_start_capture ==
    /\ ThreadAt("start")
    /\ \E k \in 0..buf_count, on \in BOOLEAN :
         \* k: index of the first VIDIOC_QBUF that fails, buf_count if none
         /\ queued' = {i \in 0..(buf_count - 1) : i < k}
         /\ IF k = buf_count /\ on
            THEN /\ frames' = 0
                 /\ tpc' = "loop"
                 /\ start_failed' = FALSE
                 /\ exit_cause' = exit_cause
            ELSE /\ frames' = frames
                 /\ tpc' = StartFailTarget
                 /\ start_failed' = TRUE
                 /\ exit_cause' = "start"
    /\ UNCHANGED <<pc, ret, thread, set_vars, dev, buf_count, buf, event, thr,
                   mapped, nopen, held, hist_vars, streamoffs, delivered,
                   sig_waits, sig_delivs>>
    \* FD_ZERO(&fds); FD_SET(data->dev, &fds); on the way into the loop
    /\ fds' = IF tpc' = "loop" THEN TRUE ELSE fds
    /\ UNCHANGED <<fmt, shown, bad_unmaps, aux_vars>>

\* (mutant) a loop that does not look at the stop event
KeepRunning_always == TRUE

\* os_event_try(data->event) == EAGAIN: the stop event is not set
KeepRunning == event # "signalled"

\* while (os_event_try(data->event) == EAGAIN)
v4l2_thread_try ==
    /\ ThreadAt("loop")
    /\ IF KeepRunning
       THEN tpc' = "select" /\ exit_cause' = exit_cause
       ELSE tpc' = "exit" /\ exit_cause' = "stop"
    /\ UNCHANGED <<pc, ret, data_vars, env_vars, hist_vars, run_vars>>
    /\ UNCHANGED <<fmt, fds, shown, bad_unmaps, aux_vars>>

\* (mutant) a timeout treated like a select() error
SelectTarget_timeout(r) ==
    CASE r = "eintr" -> "loop"
      [] r = "error" -> "exit"
      [] r = "timeout" -> "exit"
      [] r = "ready" -> "dqbuf"

\* where v4l2_thread goes after select(): EINTR and a timeout continue the
\* loop, another error breaks it, readiness goes on to VIDIOC_DQBUF
SelectTarget(r) ==
    CASE r = "eintr" -> "loop"
      [] r = "error" -> "exit"
      [] r = "timeout" -> "loop"
      [] r = "ready" -> "dqbuf"

\* fds when select() returns r: select() rewrites the set in place to the
\* descriptors that are ready, which is none of them on a timeout; on an
\* error the set is left as it was
FdsAfterSelect(r, set) == IF r = "timeout" THEN FALSE ELSE set

\* r = select(data->dev + 1, &fds, NULL, NULL, &tv); fds is filled once,
\* before the loop, and select() reports data->dev only if fds holds it
v4l2_thread_select ==
    /\ ThreadAt("select")
    /\ \E r \in {"eintr", "error", "timeout", "ready"} :
         /\ r = "ready" => (fds /\ delivered < MaxFrames)
         /\ tpc' = SelectTarget(r)
         /\ exit_cause' = IF SelectTarget(r) = "exit" THEN r ELSE exit_cause
         /\ fds' = FdsAfterSelect(r, fds)
    /\ sig_waits' = IF event = "signalled" THEN sig_waits + 1 ELSE sig_waits
    /\ UNCHANGED <<pc, ret, data_vars, env_vars, hist_vars, streamoffs,
                   delivered, start_failed, sig_delivs>>
    /\ UNCHANGED <<fmt, shown, bad_unmaps, aux_vars>>

\* (mutant) the buffer handed back to the device before its frame is delivered
AfterDequeue_requeue == "qbuf"

\* a dequeued buffer goes to obs_source_output_video first
AfterDequeue == "deliver"

\* v4l2_ioctl(data->dev, VIDIOC_DQBUF, &buf)
v4l2_thread_dqbuf ==
    /\ ThreadAt("dqbuf")
    /\ \/ \E b \in queued :
            /\ queued' = queued \ {b}
            /\ held' = b
            /\ tpc' = AfterDequeue
            /\ exit_cause' = exit_cause
       \/ /\ tpc' = "loop"                \* EAGAIN
          /\ UNCHANGED <<queued, held, exit_cause>>
       \/ /\ tpc' = "exit"                \* another error
          /\ exit_cause' = "dqbuf"
          /\ UNCHANGED <<queued, held>>
    /\ shown' = FALSE
    /\ UNCHANGED <<pc, ret, data_vars, event, thr, mapped, nopen, hist_vars,
                   run_vars>>
    /\ UNCHANGED <<fmt, fds, bad_unmaps, aux_vars>>

\* obs_source_output_video(data->source, &out);
v4l2_thread_deliver ==
    /\ ThreadAt("deliver")
    /\ delivered' = delivered + 1
    /\ sig_delivs' = IF event = "signalled" THEN sig_delivs + 1 ELSE sig_delivs
    /\ shown' = TRUE
    /\ tpc' = "qbuf"
    /\ UNCHANGED <<pc, ret, data_vars, env_vars, hist_vars, streamoffs,
                   start_failed, sig_waits>>
    /\ UNCHANGED <<fmt, exit_cause, fds, bad_unmaps, aux_vars>>

\* (mutant) the loop goes on after a failed re-queue
QbufFailTarget_loop == "loop"

\* if (v4l2_ioctl(data->dev, VIDIOC_QBUF, &buf) < 0) break;
QbufFailTarget == "exit"

\* v4l2_ioctl(data->dev, VIDIOC_QBUF, &buf); data->frames++;
v4l2_thread_qbuf ==
    /\ ThreadAt("qbuf")
    /\ \/ /\ queued' = queued \cup {held}
          /\ held' = 0 - 1
          /\ frames' = frames + 1
          /\ tpc' = "loop"
          /\ shown' = FALSE
          /\ exit_cause' = exit_cause
       \/ /\ tpc' = QbufFailTarget
          /\ exit_cause' = "qbuf"
          /\ UNCHANGED <<queued, held, frames, shown>>
    /\ UNCHANGED <<pc, ret, thread, set_vars, dev, buf_count, buf, event, thr,
                   mapped, nopen, hist_vars, run_vars>>
    /\ UNCHANGED <<fmt, fds, bad_unmaps, aux_vars>>

\* exit: v4l2_stop_capture(data); return NULL;
v4l2_stop_capture ==
    /\ ThreadAt("exit")
    /\ streamoffs' = streamoffs + 1
    /\ queued' = {}          \* VIDIOC_STREAMOFF empties the device queues
    /\ thr' = "exited"
    /\ tpc' = "done"
    /\ fds' = FALSE
    /\ UNCHANGED <<pc, ret, data_vars, event, mapped, nopen, held,
                   hist_vars, delivered, start_failed, sig_waits, sig_delivs>>
    /\ UNCHANGED <<fmt, exit_cause, shown, bad_unmaps, aux_vars>>

(* --------------------------- specification ---------------------------- *)
Control ==
    \/ v4l2_create
    \/ v4l2_update_read
    \/ v4l2_update
    \/ v4l2_update_return
    \/ v4l2_destroy
    \/ v4l2_terminate_signal
    \/ v4l2_terminate_join
    \/ v4l2_terminate_destroy
    \/ v4l2_destroy_mmap
    \/ v4l2_terminate_close
    \/ v4l2_terminate_return
    \/ v4l2_init_open
    \/ v4l2_init_fmt
    \/ v4l2_init_parm
    \/ v4l2_create_mmap
    \/ v4l2_init_mmap
    \/ v4l2_init_event
    \/ v4l2_init_thread

Thread ==
    \/ v4l2_start_capture
    \/ v4l2_thread_try
    \/ v4l2_thread_select
    \/ v4l2_thread_dqbuf
    \/ v4l2_thread_deliver
    \/ v4l2_thread_qbuf
    \/ v4l2_stop_capture

Next == Control \/ Thread

Spec == Init /\ [][Next]_vars

\* the scheduler runs the capture thread, select() has a timeout and the
\* sink returns; a call of v4l2_terminate in progress runs on
FairSpec ==
    /\ Spec
    /\ WF_vars(Thread)
    /\ WF_vars(v4l2_terminate_signal \/ v4l2_terminate_join)

TypeOK ==
    /\ pc \in {"create", "upd", "idle", "term", "t_join", "t_destroy",
               "t_mmap", "t_close", "t_ret", "u_ret", "i_open", "i_fmt", "i_parm", "i_mmap",
               "i_mmap_ret", "i_event", "i_thread", "freed", "crashed"}
    /\ tpc \in {"none", "start", "loop", "select", "dqbuf", "deliver",
                "qbuf", "exit", "done"}
    /\ thread \in {0, 1}
    /\ dev \in {NoDev, DevFd}
    /\ buf_count \in 0..MaxGrant
    /\ Len(buf) \in {0, buf_count}
    /\ frames \in 0..MaxFrames
    /\ event \in {"uninit", "init", "signalled", "destroyed"}
    /\ thr \in {"none", "running", "exited", "joined"}
    /\ fmt.pixfmt \in 0..2 /\ fmt.res \in 0..2
    /\ exit_cause \in {"none", "start", "stop", "error", "dqbuf", "qbuf"}
    /\ fds \in BOOLEAN /\ shown \in BOOLEAN
    /\ bad_unmaps \subseteq 0..(MaxGrant - 1)
    /\ enum_fds \in 0..1 /\ enum_lib \in 0..(MaxLeaked + MaxEntries)
    /\ Len(enum_dir) \in 0..MaxEntries
    /\ fn_out.step \in 0..2

(* ============================== claims ================================ *)
Exited == tpc \in {"none", "done"}

\* C1: a call of v4l2_terminate made when no session is live performs no
\* stop signal, no join, no event destruction, no unmap and no close.
\* (Stated as claimed; the code violates it: data->thread is never cleared.)
C1_StopIdempotent == ~stop_live => stop_log = <<>>

\* C2: when v4l2_init returns after a failure at any of its steps, the
\* device handle is closed, no buffer is mapped and no capture thread runs.
C2_FailedStartReleasesAll ==
    (pc = "u_ret" /\ fail_step # "none") =>
        /\ dev = NoDev /\ nopen = 0
        /\ buf_count = 0 /\ mapped = {}
        /\ thr # "running" /\ Exited

C2_Witness ==
    /\ pc = "u_ret" /\ fail_step = "thread"
    /\ event = "destroyed" /\ thr = "joined"

\* C3: in a Stop with a live capture thread the order is stop signal, join,
\* (event destruction,) unmap, close, and nothing is unmapped and the device
\* is not closed while the capture thread has not left v4l2_thread.
StopRank(op) ==
    CASE op = "signal" -> 1 [] op = "join" -> 2 [] op = "destroy" -> 3
      [] op = "unmap" -> 4 [] op = "close" -> 5

C3_StopOrder ==
    /\ [](\A i, j \in 1..Len(stop_log) :
            i < j => StopRank(stop_log[i]) < StopRank(stop_log[j]))
    /\ [][((mapped' # mapped /\ mapped' \subseteq mapped) \/ nopen' < nopen)
            => Exited]_vars

C3_Witness ==
    /\ pc = "t_ret" /\ stop_live /\ ub = {}
    /\ stop_log = <<"signal", "join", "destroy", "unmap", "close">>
    /\ delivered > 0

\* C4: at most one session is live: v4l2_init opens the device only when no
\* descriptor is open, no buffer is mapped and no thread is unjoined, and it
\* creates the thread only when no other thread runs or waits to be joined.
C4_OneSession ==
    /\ nopen <= 1
    /\ pc = "i_open" =>
         /\ ~Live /\ dev = NoDev /\ buf_count = 0 /\ Exited
    /\ pc \in {"i_fmt", "i_parm", "i_mmap", "i_mmap_ret", "i_event",
               "i_thread"} =>
         /\ thr \notin {"running", "exited"} /\ Exited

C4_Witness ==
    /\ pc = "i_thread" /\ thread = 1 /\ thr = "joined"
    /\ nopen = 1 /\ mapped # {}

\* C5: v4l2_update with a configuration equal in all four fields to the
\* stored one (the device id taken after the auto selection of a blank id)
\* stops and starts nothing and leaves the session as it is.
C5_SameConfigNoop ==
    [][(pc = "upd" /\ pc' # pc /\ upd_in = StoredCfg) =>
         /\ pc' = "u_ret"
         /\ UNCHANGED <<data_vars, env_vars, tpc, stop_log, upd_log>>]_vars

C5_Witness ==
    /\ pc = "u_ret" /\ upd_log = <<>> /\ upd_in = StoredCfg
    /\ thr = "running" /\ tpc = "select"

\* C6: v4l2_update with any of the four fields different stores all new
\* values, then runs v4l2_terminate, then v4l2_init; a running session
\* always has the stored configuration.
C6_ChangeRestarts ==
    /\ [][(pc = "upd" /\ pc' # pc /\ upd_in # StoredCfg) =>
            /\ pc' = "term" /\ ret' = "i_open"
            /\ StoredCfg' = upd_in
            /\ UNCHANGED <<thread, dev, buf_count, buf, env_vars, tpc>>]_vars
    /\ [](pc = "u_ret" /\ upd_log # <<>> =>
            upd_log = <<"store", "stop", "start">> /\ StoredCfg = upd_in)
    /\ [](pc \in {"idle", "upd"} /\ ~Exited => sess_cfg = StoredCfg)

C6_Witness ==
    /\ pc = "u_ret" /\ upd_log = <<"store", "stop", "start">>
    /\ thr = "running"
    /\ StoredCfg = [DefaultSettings EXCEPT !.framerate = 2]

\* C7 as claimed: when v4l2_create_mmap returns an error no buffer is mapped.
C7_RollbackInsideManager ==
    (pc = "i_mmap_ret" /\ mmap_rc.rc < 0) => mapped = {}

\* C7 as amended: when the query or the mapping of buffer k of n fails, the
\* k buffers mapped before are still mapped and buf_count is n when
\* v4l2_create_mmap returns; v4l2_terminate, called on the fail path of
\* v4l2_init, unmaps them, so none is mapped when v4l2_init returns.
C7_RollbackByTerminate ==
    /\ (pc = "i_mmap_ret" /\ mmap_rc.failed_at >= 0) =>
         /\ mmap_rc.rc < 0
         /\ mapped = {i \in 0..(mmap_rc.granted - 1) : i < mmap_rc.failed_at}
         /\ buf_count = mmap_rc.granted
    /\ (pc = "u_ret" /\ fail_step = "mmap") =>
         /\ mapped = {} /\ buf_count = 0 /\ buf = <<>>

C7_Witness ==
    /\ pc = "u_ret" /\ fail_step = "mmap"
    /\ mmap_rc.failed_at = 2 /\ mmap_rc.granted > 2
    /\ mapped = {} /\ dev = NoDev

\* C8: when the device grants fewer than 2 buffers v4l2_create_mmap fails,
\* maps nothing, leaves buf_count at 0, and v4l2_init is aborted without a
\* capture thread.
C8_TooFewBuffers ==
    mmap_rc.granted \in {0, 1} =>
        /\ mmap_rc.rc < 0
        /\ mapped = {} /\ buf_count = 0 /\ buf = <<>>
        /\ pc \notin {"i_event", "i_thread", "idle", "upd"}
        /\ pc = "u_ret" => fail_step = "mmap"
        /\ thr # "running" /\ Exited

C8_Witness ==
    /\ pc = "u_ret" /\ fail_step = "mmap" /\ mmap_rc.granted = 1

\* C9: once the stop event is signalled a running capture thread exits
\* after at most one more select() and at most one more delivery, every
\* finished run has issued VIDIOC_STREAMOFF exactly once, and pthread_join
\* in v4l2_terminate returns.
C9_StopTerminatesThread ==
    /\ [](sig_waits <= 1 /\ sig_delivs <= 1)
    /\ [](IF tpc = "done" THEN streamoffs = 1
          ELSE tpc # "none" => streamoffs = 0)
    /\ (event = "signalled" /\ ~Exited) ~> Exited
    /\ (pc = "t_join") ~> (pc # "t_join")

C9_Witness ==
    /\ tpc = "done" /\ thr = "exited" /\ event = "signalled"
    /\ sig_waits = 1 /\ sig_delivs = 1 /\ streamoffs = 1

\* C10: no frame is delivered after VIDIOC_STREAMOFF was requested, and a
\* run whose v4l2_start_capture failed delivers no frame at all.
C10_NoFrameAfterStreamOff ==
    /\ [][delivered' > delivered => streamoffs = 0 /\ ~start_failed]_vars
    /\ [](start_failed => delivered = 0)
    /\ [](streamoffs > 0 => tpc = "done")

C10_Witness ==
    /\ tpc = "done" /\ start_failed /\ streamoffs = 1 /\ delivered = 0
    /\ queued = {}

(* --------------------------- C11 *)

\* the causes with which v4l2_thread breaks out of its loop on an I/O error:
\* select() failing with something else than EINTR, VIDIOC_DQBUF failing with
\* something else than EAGAIN, VIDIOC_QBUF failing
FatalCauses == {"error", "dqbuf", "qbuf"}

\* C11: once the capture thread has returned after a fatal I/O error and the
\* control context is idle (no update or destroy call in progress), the
\* session is in the no-capture state: device handle closed, no buffer
\* mapped, thread joined.
C11_FatalErrorReleases ==
    (pc = "idle" /\ tpc = "done" /\ exit_cause \in FatalCauses) =>
        /\ dev = NoDev /\ nopen = 0
        /\ mapped = {}
        /\ thr = "joined"

(* --------------------------- pack_tuple / unpack_tuple *)

\* 1 << 16
Two16 == 65536

\* the value of a 32-bit pattern with upper half hi and lower half lo, read
\* as a two's complement int
AsInt32(hi, lo) == (IF hi >= Two16 \div 2 THEN hi - Two16 ELSE hi) * Two16 + lo

\* (a << 16) | (b & 0xffff) in a 32-bit int: the low 16 bits of a become the
\* upper half, the low 16 bits of b the lower half
pack_tuple(a, b) == AsInt32(a % Two16, b % Two16)

\* *a = packed >> 16 (a negative int is shifted with sign extension);
\* *b = packed & 0xffff
unpack_tuple(packed) == [a |-> packed \div Two16, b |-> packed % Two16]

\* values stored as one half of a tuple: small ones, a frame width, and the
\* values around the sign bit and the top of the 16-bit range
TupleVals == {0, 1, 640, 32767, 32768, 65535}

(* --------------------------- v4l2_prep_obs_frame *)

\* length of frame->linesize and of plane_offsets
MAX_AV_PLANES == 8

\* the pixel formats v4l2_to_obs_video_format knows
PixFmts == {"YVYU", "YUYV", "UYVY", "NV12", "YUV420", "YVU420"}

\* data->linesize (fmt.fmt.pix.bytesperline) and data->height values
Strides == {0, 2, 6, 640, 1280}
Heights == {1, 2, 3, 480}

\* frame->linesize after the memset and the switch on data->pixfmt
PlaneLinesize(pixfmt, linesize) ==
    [i \in 1..MAX_AV_PLANES |->
        CASE i = 1 -> linesize
          [] i = 2 /\ pixfmt \in {"NV12", "YVU420", "YUV420"} -> linesize \div 2
          [] i = 3 /\ pixfmt \in {"YVU420", "YUV420"} -> linesize \div 2
          [] OTHER -> 0]

\* (mutant) both 3-plane formats laid out in the YUV420 order
PlaneOffsets_sameorder(pixfmt, linesize, height) ==
    [i \in 1..MAX_AV_PLANES |->
        CASE i = 2 /\ pixfmt \in {"NV12", "YUV420", "YVU420"} -> linesize * height
          [] i = 3 /\ pixfmt \in {"YUV420", "YVU420"} ->
                (linesize * height * 5) \div 4
          [] OTHER -> 0]

\* plane_offsets after the memset and the switch on data->pixfmt
PlaneOffsets(pixfmt, linesize, height) ==
    [i \in 1..MAX_AV_PLANES |->
        CASE i = 2 /\ pixfmt \in {"NV12", "YUV420"} -> linesize * height
          [] i = 2 /\ pixfmt = "YVU420" -> (linesize * height * 5) \div 4
          [] i = 3 /\ pixfmt = "YVU420" -> linesize * height
          [] i = 3 /\ pixfmt = "YUV420" -> (linesize * height * 5) \div 4
          [] OTHER -> 0]

\* v4l2_prep_obs_frame(data, &out, plane_offsets);
call_prep_obs_frame ==
    /\ fn_in.fn = "prep" /\ fn_out.step = 0
    /\ fn_out' = [step |-> 1,
                  linesize |-> PlaneLinesize(fn_in.pixfmt, fn_in.linesize),
                  offsets |-> PlaneOffsets(fn_in.pixfmt, fn_in.linesize,
                                           fn_in.height)]
    /\ UNCHANGED <<sess_vars, enum_pc, enum_fds, enum_dir, enum_lib, fn_in>>

\* the helper under test and its arguments
PureInit ==
    /\ SessInit
    /\ enum_pc = EnumIdle /\ enum_fds = 0 /\ enum_dir = <<>> /\ enum_lib = 0
    /\ fn_out = [step |-> 0]
    /\ \/ \E a \in TupleVals, b \in TupleVals :
            fn_in = [fn |-> "tuple", a |-> a, b |-> b]
       \/ \E p \in PixFmts, l \in Strides, h \in Heights :
            fn_in = [fn |-> "prep", pixfmt |-> p, linesize |-> l, height |-> h]

\* int packed = pack_tuple(a, b);
call_pack_tuple ==
    /\ fn_in.fn = "tuple" /\ fn_out.step = 0
    /\ fn_out' = [step |-> 1, packed |-> pack_tuple(fn_in.a, fn_in.b)]
    /\ UNCHANGED <<sess_vars, enum_pc, enum_fds, enum_dir, enum_lib, fn_in>>

\* unpack_tuple(&a, &b, packed);
call_unpack_tuple ==
    /\ fn_in.fn = "tuple" /\ fn_out.step = 1
    /\ fn_out' = [step |-> 2, packed |-> fn_out.packed,
                  a |-> unpack_tuple(fn_out.packed).a,
                  b |-> unpack_tuple(fn_out.packed).b]
    /\ UNCHANGED <<sess_vars, enum_pc, enum_fds, enum_dir, enum_lib, fn_in>>

PureNext == call_pack_tuple \/ call_unpack_tuple \/ call_prep_obs_frame

PureSpec == PureInit /\ [][PureNext]_vars

(* --------------------------- C12 *)

\* C12: for a and b in 0..65535, unpacking the packed pair gives back
\* exactly (a, b).
C12_TupleRoundTrip ==
    (fn_in.fn = "tuple" /\ fn_out.step = 2) =>
        /\ fn_in.a \in 0..(Two16 - 1) /\ fn_in.b \in 0..(Two16 - 1)
        /\ fn_out.a = fn_in.a /\ fn_out.b = fn_in.b

(* --------------------------- C13 *)

\* plane i (counted from 0) of the computed layout is absent: offset 0 and
\* stride 0
NoPlane(i) == fn_out.offsets[i + 1] = 0 /\ fn_out.linesize[i + 1] = 0

\* C13: plane 0 is at offset 0 with the full stride for every format;
\* YUV420 and YVU420 have planes 1 and 2 with half the stride, at
\* stride*height and stride*height*5/4 for YUV420 and the two swapped for
\* YVU420; NV12 adds only plane 1, at stride*height; packed formats have
\* plane 0 alone, every other offset and stride being zero.
C13_PlaneLayout ==
    (fn_in.fn = "prep" /\ fn_out.step = 1) =>
        LET L == fn_in.linesize
            H == fn_in.height
            off == fn_out.offsets
            ls == fn_out.linesize
        IN  /\ off[1] = 0 /\ ls[1] = L
            /\ \A i \in 3..(MAX_AV_PLANES - 1) : NoPlane(i)
            /\ fn_in.pixfmt = "YUV420" =>
                    /\ ls[2] = L \div 2 /\ ls[3] = L \div 2
                    /\ off[2] = L * H
                    /\ off[3] = (L * H * 5) \div 4
            /\ fn_in.pixfmt = "YVU420" =>
                    /\ ls[2] = L \div 2 /\ ls[3] = L \div 2
                    /\ off[2] = (L * H * 5) \div 4
                    /\ off[3] = L * H
            /\ fn_in.pixfmt = "NV12" =>
                    /\ off[2] = L * H
                    /\ NoPlane(2)
            /\ fn_in.pixfmt \in {"YVYU", "YUYV", "UYVY"} =>
                    NoPlane(1) /\ NoPlane(2)

\* the layout of a 640x480 YVU420 frame has been computed: plane 1 lies
\* behind plane 2
C13_Witness ==
    /\ fn_in = [fn |-> "prep", pixfmt |-> "YVU420", linesize |-> 640,
                height |-> 480]
    /\ fn_out.step = 1
    /\ fn_out.offsets[2] = 384000 /\ fn_out.offsets[3] = 307200
    /\ fn_out.linesize[2] = 320

(* --------------------------- C14 *)

\* C14: while streaming with no stop signal, every readiness wait of the
\* capture thread, also one that follows a timeout or an interrupted wait,
\* waits for readability of the session's device, so that a buffer filled
\* later is noticed, dequeued and delivered.
C14_TimeoutRewaits ==
    (ThreadAt("select") /\ event # "signalled") => fds

(* --------------------------- C15 *)

\* a capture thread has been created and has not been joined
ThreadLive == thr \in {"running", "exited"} \/ ~Exited

\* the steps of v4l2_init and v4l2_terminate that assign data->dev,
\* data->buf, data->buf_count or data->width/height/pixfmt/linesize
WriterSteps == {"i_open", "i_fmt", "i_mmap", "t_mmap", "t_close"}

\* C15: while a capture thread exists and has not been joined, the control
\* context is at none of the steps that write the device handle, the buffer
\* descriptors or the negotiated format, and none of them changes: they are
\* constant from pthread_create to the return of pthread_join.
C15_NoWriteWhileRunning ==
    [][ThreadLive =>
            /\ pc \notin WriterSteps
            /\ UNCHANGED <<dev, buf, buf_count, fmt>>]_vars

\* an update that restarts a session which delivered a frame is about to
\* unmap the buffers, the thread being joined
C15_Witness ==
    /\ pc = "t_mmap" /\ ret = "i_open"
    /\ thr = "joined" /\ tpc = "done"
    /\ delivered >= 1
    /\ buf_count >= MinBuffers /\ dev = DevFd

(* --------------------------- C16 *)

\* every descriptor of the session's pool is mapped and the control context
\* is neither mapping nor unmapping
PoolMapped ==
    /\ buf_count >= MinBuffers /\ Len(buf) = buf_count
    /\ \A i \in 0..(buf_count - 1) : buf[i + 1] = MAPPED /\ i \in mapped
    /\ pc \notin {"i_mmap", "t_mmap"}

\* C16: whenever the capture thread delivers a frame, the frame's data
\* pointers (data->buf[buf.index].start plus the plane offsets) lie in a
\* descriptor of the pool that is mapped at that moment, the mapping of the
\* pool being complete and its unmapping not begun.
C16_DeliveredFrameMapped ==
    [][delivered' > delivered =>
            /\ held \in 0..(buf_count - 1)
            /\ buf[held + 1] = MAPPED /\ held \in mapped
            /\ PoolMapped]_vars

\* a frame has just been delivered from a mapped buffer that is still held
C16_Witness ==
    /\ tpc = "qbuf" /\ shown /\ delivered >= 1
    /\ held \in mapped /\ PoolMapped

(* --------------------------- C17 *)

\* C17: v4l2_destroy_mmap passes to munmap only descriptors whose mapping is
\* valid; descriptors that were never mapped, or whose mapping failed, are
\* skipped.
C17_UnmapOnlyValid == bad_unmaps = {}

(* --------------------------- C18 *)

\* C18: the capture thread issues VIDIOC_QBUF for a dequeued buffer only
\* after obs_source_output_video has returned for its frame; a buffer that
\* has been dequeued is on its way to delivery and re-queueing (or its
\* re-queue attempt has failed); and after a failed re-queue the thread run
\* only leaves: it dequeues and delivers nothing more.
C18_RequeueAfterDelivery ==
    [][/\ (tpc = "qbuf" /\ tpc' # "qbuf") => (shown /\ held # 0 - 1)
       /\ (held # 0 - 1 /\ ~Exited) =>
              (tpc \in {"deliver", "qbuf"} \/ exit_cause = "qbuf")
       /\ (exit_cause = "qbuf" /\ exit_cause' = "qbuf") =>
              /\ tpc \in {"exit", "done"} /\ tpc' \in {"exit", "done"}
              /\ delivered' = delivered /\ held' = held /\ queued' \subseteq queued
      ]_vars

\* a thread run that re-queued one delivered buffer has returned after the
\* re-queue of the next one failed
C18_Witness ==
    /\ frames >= 1 /\ delivered = frames + 1
    /\ exit_cause = "qbuf" /\ tpc = "done"
    /\ held # 0 - 1

(* --------------------- property callbacks (enumeration) ---------------- *)

\* what v4l2_device_list meets at one directory entry: a directory, a node
\* v4l2_open fails on, a node whose VIDIOC_QUERYCAP fails, a capture device,
\* a device without V4L2_CAP_VIDEO_CAPTURE
EntryKinds == {"dir", "openfail", "capfail", "capture", "nocapture"}

\* the directory contents readdir() can return
Directories == UNION {[1..n -> EntryKinds] : n \in 0..MaxEntries}

\* v4l2_open keeps state of its own (format conversion, its device table)
\* for a capture device, next to the descriptor it returns
LibHandles(kind) == IF kind = "capture" THEN 1 ELSE 0

\* a session that is streaming, as v4l2_create leaves it when every step of
\* v4l2_init succeeds with the default settings
SessStreaming ==
    /\ pc = "idle" /\ ret = "i_open"
    /\ thread = 1 /\ set_device = "video0"
    /\ set_pixfmt = 1 /\ set_res = 1 /\ set_fps = 2
    /\ dev = DevFd /\ frames = 0 /\ buf_count = 2 /\ buf = <<MAPPED, MAPPED>>
    /\ event = "init" /\ thr = "running" /\ mapped = {0, 1} /\ nopen = 1
    /\ queued = {0, 1} /\ held = 0 - 1
    /\ tpc = "select"
    /\ mmap_rc = NoMmapCall
    /\ fail_step = "none"
    /\ stop_live = FALSE /\ stop_log = <<>> /\ upd_log = <<>>
    /\ upd_in = StoredCfg /\ sess_cfg = StoredCfg
    /\ ub = {}
    /\ streamoffs = 0 /\ delivered = 0 /\ start_failed = FALSE
    /\ sig_waits = 0 /\ sig_delivs = 0
    /\ fmt = [pixfmt |-> 1, res |-> 1]
    /\ exit_cause = "none" /\ fds = TRUE /\ shown = FALSE
    /\ bad_unmaps = {}

\* the properties of a source without a session, or of one that streams
EnumInit ==
    /\ SessInit \/ SessStreaming
    /\ AuxIdle

\* dirp = opendir("/sys/class/video4linux"); if (!dirp) return;
v4l2_device_list ==
    /\ enum_pc = EnumIdle
    /\ enum_lib < MaxLeaked
    /\ \/ /\ enum_pc' = [fn |-> "v4l2_device_list", at |-> "ret"]
          /\ enum_dir' = <<>>
       \/ /\ enum_pc' = [fn |-> "v4l2_device_list", at |-> "readdir"]
          /\ enum_dir' \in Directories
    /\ UNCHANGED <<sess_vars, enum_fds, enum_lib, fn_in, fn_out>>

\* while ((dp = readdir(dirp)) != NULL) { ... fd = v4l2_open(device.array,
\* O_RDWR | O_NONBLOCK) ... } closedir(dirp);
v4l2_device_list_readdir ==
    /\ enum_pc = [fn |-> "v4l2_device_list", at |-> "readdir"]
    /\ IF enum_dir = <<>>
       THEN /\ enum_pc' = [fn |-> "v4l2_device_list", at |-> "ret"]
            /\ UNCHANGED <<enum_dir, enum_fds, enum_lib>>
       ELSE IF Head(enum_dir) \in {"dir", "openfail"}
       THEN /\ enum_dir' = Tail(enum_dir)          \* continue
            /\ UNCHANGED <<enum_pc, enum_fds, enum_lib>>
       ELSE /\ enum_fds' = enum_fds + 1
            /\ enum_lib' = enum_lib + LibHandles(Head(enum_dir))
            /\ enum_pc' = [fn |-> "v4l2_device_list", at |-> "querycap"]
            /\ UNCHANGED enum_dir
    /\ UNCHANGED <<sess_vars, fn_in, fn_out>>

\* v4l2_ioctl(fd, VIDIOC_QUERYCAP, &video_cap) and the three branches on its
\* result, none of which leaves the loop body
v4l2_device_list_querycap ==
    /\ enum_pc = [fn |-> "v4l2_device_list", at |-> "querycap"]
    /\ Head(enum_dir) \in {"capfail", "capture", "nocapture"}
    /\ enum_pc' = [fn |-> "v4l2_device_list", at |-> "close"]
    /\ UNCHANGED <<sess_vars, enum_fds, enum_lib, enum_dir, fn_in, fn_out>>

\* libv4l2 handles released by close(fd): close() gives back the descriptor
\* and nothing of what v4l2_open set up
ListCloseReleases(kind) == 0

\* close(fd);
v4l2_device_list_close ==
    /\ enum_pc = [fn |-> "v4l2_device_list", at |-> "close"]
    /\ enum_fds' = enum_fds - 1
    /\ enum_lib' = enum_lib - ListCloseReleases(Head(enum_dir))
    /\ enum_dir' = Tail(enum_dir)
    /\ enum_pc' = [fn |-> "v4l2_device_list", at |-> "readdir"]
    /\ UNCHANGED <<sess_vars, fn_in, fn_out>>

\* the modified callbacks v4l2_properties installs
Callbacks == {"device_selected", "format_selected", "resolution_selected"}

\* int dev = v4l2_open(obs_data_getstring(settings, "device_id"), O_RDWR |
\* O_NONBLOCK); if (dev == -1) return false;
selected_open(cb) ==
    /\ enum_pc = EnumIdle
    /\ \/ /\ enum_pc' = [fn |-> cb, at |-> "ret_false"]
          /\ UNCHANGED <<enum_dir, enum_fds, enum_lib>>
       \/ \E kind \in {"capture", "nocapture"} :
            /\ enum_dir' = <<kind>>
            /\ enum_fds' = enum_fds + 1
            /\ enum_lib' = enum_lib + LibHandles(kind)
            /\ enum_pc' = [fn |-> cb, at |-> "list"]
    /\ UNCHANGED <<sess_vars, fn_in, fn_out>>

\* v4l2_format_list / v4l2_resolution_list / v4l2_framerate_list on dev;
\* obs_property_modified(prop, settings);
selected_list(cb) ==
    /\ enum_pc = [fn |-> cb, at |-> "list"]
    /\ enum_pc' = [fn |-> cb, at |-> "close"]
    /\ UNCHANGED <<sess_vars, enum_fds, enum_lib, enum_dir, fn_in, fn_out>>

\* v4l2_close(dev); return true;
selected_close(cb) ==
    /\ enum_pc = [fn |-> cb, at |-> "close"]
    /\ enum_fds' = enum_fds - 1
    /\ enum_lib' = enum_lib - LibHandles(Head(enum_dir))
    /\ enum_dir' = <<>>
    /\ enum_pc' = [fn |-> cb, at |-> "ret_true"]
    /\ UNCHANGED <<sess_vars, fn_in, fn_out>>

\* the steps at which an enumeration function is about to return
RetSteps == {"ret", "ret_false", "ret_true"}

\* the enumeration function returns to the property system
enum_return ==
    /\ enum_pc.at \in RetSteps
    /\ enum_pc' = EnumIdle
    /\ enum_dir' = <<>>
    /\ UNCHANGED <<sess_vars, enum_fds, enum_lib, fn_in, fn_out>>

EnumNext ==
    \/ v4l2_device_list
    \/ v4l2_device_list_readdir
    \/ v4l2_device_list_querycap
    \/ v4l2_device_list_close
    \/ \E cb \in Callbacks : selected_open(cb)
    \/ \E cb \in Callbacks : selected_list(cb)
    \/ \E cb \in Callbacks : selected_close(cb)
    \/ enum_return

EnumSpec == EnumInit /\ [][EnumNext]_vars

(* --------------------------- C19 *)

\* C19: whenever an enumeration operation (the device list scan or one of
\* the three selection callbacks) has returned, every handle it opened with
\* v4l2_open has been closed, descriptor and library handle alike, whatever
\* the outcome of its queries; and no enumeration step changes the session's
\* own device handle.
C19_EnumerationClosesHandles ==
    /\ enum_pc.at \in RetSteps \cup {"idle"} => (enum_fds = 0 /\ enum_lib = 0)
    /\ dev \in {NoDev, DevFd} /\ nopen = (IF dev = NoDev THEN 0 ELSE 1)

(* --------------------------- C20 *)

\* the stop event has been initialised and not destroyed
EventLive == event \in {"init", "signalled"}

\* C20: no stop event is signalled or destroyed while it is not initialised
\* or after it has been destroyed; an initialised event is destroyed before
\* os_event_init overwrites it and before the source is freed; and the
\* capture thread polls only a live event.
C20_EventLifecycle ==
    /\ ub \cap {"signal", "destroy"} = {}
    /\ pc \in {"i_event", "freed"} => ~EventLive
    /\ ThreadAt("loop") => EventLive

(* --------------------------- C21 *)

\* the capture thread is between a successful v4l2_start_capture and the
\* end of its loop
Streaming == tpc \in {"loop", "select", "dqbuf", "deliver", "qbuf"}

\* indices of the session's buffer pool
Pool == 0..(buf_count - 1)

\* the buffers the capture thread has dequeued and not given back
HeldSet == IF held = 0 - 1 THEN {} ELSE {held}

\* C21: while a capture thread is streaming, every buffer of the pool is
\* either queued to the device or held by the thread, never both; the thread
\* holds nothing when it waits for or dequeues a buffer, so it never holds
\* more than one; and data->frames is the number of buffers of this run
\* that were delivered and re-queued with success.
C21_BufferOwnership ==
    Streaming =>
        /\ queued \cup HeldSet = Pool
        /\ queued \cap HeldSet = {}
        /\ tpc \in {"loop", "select", "dqbuf"} => held = 0 - 1
        /\ tpc \in {"deliver", "qbuf"} => held \in Pool
        /\ frames = delivered - (IF shown THEN 1 ELSE 0)

\* the second frame of a run has been delivered and its buffer is still
\* held, the first one having been re-queued and counted
C21_Witness ==
    /\ tpc = "qbuf" /\ shown
    /\ delivered = 2 /\ frames = 1
    /\ held \in Pool /\ queued = Pool \ {held}
    /\ buf_count >= MinBuffers

(* --------------------------- C22 *)

\* C22: when no capture thread is running (the last v4l2_init failed, or
\* the thread has returned on its own), v4l2_update with the stored device
\* id, pixel format, resolution and frame rate returns without calling
\* v4l2_init and the source stays as it is; a capture thread is created
\* only inside an update that found a field changed and stored it; and the
\* set_* fields hold the requested configuration also when v4l2_init
\* failed.
C22_NoRetryOnSameConfig ==
    /\ [][(pc = "upd" /\ pc' # pc /\ upd_in = StoredCfg /\ Exited) =>
            /\ pc' = "u_ret" /\ Exited'
            /\ UNCHANGED <<dev, thread, thr, buf_count, event>>]_vars
    /\ [][(Exited /\ ~Exited') =>
            (pc = "i_thread" /\ upd_log = <<"store", "stop">>)]_vars
    /\ [](pc = "u_ret" /\ fail_step # "none" =>
            StoredCfg = upd_in /\ Exited)

\* an update with the stored configuration has returned without a restart
\* although the earlier start had failed and nothing is capturing
C22_Witness ==
    /\ pc = "u_ret" /\ upd_log = <<>> /\ fail_step = "none"
    /\ set_device # "NULL" /\ upd_in = StoredCfg
    /\ dev = NoDev /\ thr # "running" /\ Exited

====
